---- MODULE Spec2Model ----
(***************************************************************************)
(* Network Diagram Analyzer (src/app.py): a Streamlit script that is run   *)
(* top to bottom once per user event.  The model keeps the session state   *)
(* (st.session_state), the file held by the upload control, the process-   *)
(* wide st.cache_resource entry of get_snowflake_connection, the local     *)
(* scratch file and the object staged under the fixed name, and a record   *)
(* of what the last event's script run(s) did.                             *)
(*                                                                         *)
(* Text: a str is a TLA+ string; a str built by an f-string is the tuple   *)
(* of its pieces.  A stage path is the sequence of its tokens, a token     *)
(* being "/" or a maximal run of characters other than "/".                *)
(***************************************************************************)
EXTENDS Integers, Sequences, FiniteSets, TLC

VARIABLES
    messages,          \* st.session_state.messages
    diagram_uploaded,  \* st.session_state.diagram_uploaded
    stage_filename,    \* st.session_state.stage_filename
    connection,        \* st.session_state.connection
    uploaded_file,     \* the file held by st.file_uploader
    chat_input,        \* TRUE iff the last script run rendered st.chat_input
    clear_button,      \* TRUE iff the last script run rendered the clear button
    cache,             \* the st.cache_resource entry of get_snowflake_connection
    scratch,           \* content of the local scratch file <tmp>/diagram.png
    stage,             \* content of @network_diagrams/diagram.png
    authAttempts,      \* history: executions of get_snowflake_connection's body
    connCalls,         \* history: calls of get_snowflake_connection
    firstResult,       \* history: what the first execution of the body returned
    last,              \* history: what the script run(s) of the last event did
    race               \* the uploader calls of two processes, step by step

vars == <<messages, diagram_uploaded, stage_filename, connection, uploaded_file,
          chat_input, clear_button, cache, scratch, stage, authAttempts,
          connCalls, firstResult, last, race>>

-----------------------------------------------------------------------------
(* Bounds of the model. *)

MaxTurns == 4      \* chat turns kept in the transcript of one session
MaxCalls == 2      \* calls of get_snowflake_connection in one process
MaxListing == 2    \* entries of one LIST @network_diagrams result

-----------------------------------------------------------------------------
(* Values. *)

None == "None"                         \* Python None where a str is expected
NoConnection == [conn |-> 0]           \* Python None where a connection is expected
Handle(n) == [conn |-> n]              \* the connection made by the n-th attempt
NoFile == [type |-> "none", content |-> "none"]       \* uploaded_file is None
NoImage == [format |-> "none", pixels |-> "none"]     \* image is None
Absent == [format |-> "absent", pixels |-> "none"]    \* no such file / staged object
Partial == [format |-> "PNG", pixels |-> "partial"]   \* opened, not fully written
NoPrompt == None                                      \* st.chat_input returned None

DiagramName == "diagram.png"           \* stage_filename = "diagram.png"
Str(s) == <<s>>                        \* a str that is one literal or one value

MediaTypes == {"image/png", "image/jpeg", "image/jpg", "image/gif",
               "application/vnd.ms-visio.drawing"}
\* "ok": a readable picture; "corrupt": Image.open raises; "truncated":
\* Image.open reads the header, decoding the pixel data raises.
Contents == {"ok", "corrupt", "truncated"}
Files == [type : {"image/png"}, content : Contents]
    \cup [type : MediaTypes \ {"image/png"}, content : {"ok"}]

Questions == {"What database is shown?", "How many routers?"}
Answers == {"A PostgreSQL database"}
Errors == {"timeout"}

AuthOutcomes == {"ok", "key", "connect"}   \* success, key loading fails, connect fails

\* What the completion query does: returns a row, returns no row, raises.
QueryOutcomes == [kind : {"row"}, text : Answers, err : {None}]
            \cup [kind : {"norow"}, text : {None}, err : {None}]
            \cup [kind : {"raise"}, text : {None}, err : Errors]
NoQuery == [kind |-> "none", text |-> None, err |-> None]

\* Paths the remote LIST may return.
Paths == { <<"network_diagrams", "/", "diagram.png">>,
           <<"network_diagrams", "/", "diagram_1.png">>,
           <<"diagram.png", "/", "other.png">>,
           <<"network_diagrams", "/", "diagram.png", "/">> }

RECURSIVE SeqsUpTo(_, _)
SeqsUpTo(S, n) ==
    IF n = 0 THEN { <<>> }
    ELSE LET shorter == SeqsUpTo(S, n - 1)
         IN  shorter \cup { Append(q, x) : q \in shorter, x \in S }

Listings == SeqsUpTo(Paths, MaxListing)

\* What one call of upload_image_to_stage meets: the step that raises (if any),
\* whether ALTER STAGE raises, whether the os.remove of the finally clause
\* raises, and the rows LIST returns.  Fields no execution reads are fixed,
\* and a call in which ALTER STAGE raises meets a listing of at most one row.
UploadSteps == {"encode", "create", "remove", "open", "write", "put", "list"}
UploadEnvs ==
    [fail : {"encode", "create"}, alter : {FALSE}, delete : {FALSE}, listing : {<<>>}]
    \cup [fail : {"remove", "open", "write"}, alter : BOOLEAN, delete : {FALSE},
          listing : {<<>>}]
    \cup [fail : {"put", "list"}, alter : BOOLEAN, delete : BOOLEAN, listing : {<<>>}]
    \cup [fail : {"none"}, alter : {FALSE}, delete : BOOLEAN, listing : Listings]
    \cup [fail : {"none"}, alter : {TRUE}, delete : BOOLEAN,
          listing : SeqsUpTo(Paths, 1)]

NoUpload == [fail |-> "none", alter |-> FALSE, delete |-> FALSE, listing |-> <<>>]

\* The calls of the script pass one filename, so a session sees of a listing
\* only whether it holds a match: its runs draw from two listings.  No step
\* reads whether ALTER STAGE raised (except: pass), so its runs fix that too.
SessionListings == { <<<<"network_diagrams", "/", "diagram_1.png">>>>,
                     <<<<"network_diagrams", "/", "diagram_1.png">>,
                       <<"network_diagrams", "/", "diagram.png">>>> }
SessionUploadEnvs ==
    [fail : UploadSteps \ {"put", "list"}, alter : {FALSE}, delete : {FALSE},
     listing : {<<>>}]
    \cup [fail : {"put", "list"}, alter : {FALSE}, delete : BOOLEAN, listing : {<<>>}]
    \cup [fail : {"none"}, alter : {FALSE}, delete : BOOLEAN, listing : SessionListings]

-----------------------------------------------------------------------------
(* get_snowflake_connection, under @st.cache_resource. *)

\* cache_hit, were a None result not kept in the cache.
cache_hit_unless_none(c) == c.filled /\ c.value # NoConnection

\* @st.cache_resource: the body runs only when the cache holds no entry; the
\* entry is whatever the body returned, None included.
cache_hit(c) == c.filled

\* The body: key loading and connect inside try; any exception gives None.
connect(auth, n) == IF auth = "ok" THEN Handle(n) ELSE NoConnection

\* One call.  g is [cache, authAttempts, connCalls, firstResult]; the result
\* adds ret, the value returned.
get_snowflake_connection(g, auth) ==
    IF cache_hit(g.cache)
    THEN [cache |-> g.cache, authAttempts |-> g.authAttempts,
          connCalls |-> g.connCalls + 1, firstResult |-> g.firstResult,
          ret |-> g.cache.value]
    ELSE LET made == connect(auth, g.authAttempts + 1)
         IN  [cache |-> [filled |-> TRUE, value |-> made],
              authAttempts |-> g.authAttempts + 1,
              connCalls |-> g.connCalls + 1,
              firstResult |-> IF g.authAttempts = 0 THEN made ELSE g.firstResult,
              ret |-> made]

-----------------------------------------------------------------------------
(* convert_visio_to_image *)

AcceptedTypes == {"image/png", "image/jpeg", "image/jpg"}

\* Image.open: lazy, it reads the header only.
ImageOpen(f) ==
    [format |-> IF f.type = "image/png" THEN "PNG" ELSE "JPEG", pixels |-> f.content]

\* convert_visio_to_image, were the media type not checked.
convert_any_type(f) == IF f.content = "corrupt" THEN NoImage ELSE ImageOpen(f)

convert_visio_to_image(f) ==
    IF f.type \in AcceptedTypes
    THEN IF f.content = "corrupt" THEN NoImage ELSE ImageOpen(f)
    ELSE NoImage

\* st.image(image, ...) decodes the pixel data; it raises when that fails.
st_image_raises(image) == image.pixels = "truncated"

-----------------------------------------------------------------------------
(* upload_image_to_stage *)

\* image.save(buffered, format="PNG"); buffered.getvalue()
EncodePNG(image) == [format |-> "PNG", pixels |-> image.pixels]

\* file_path.split('/'): the maximal runs between the "/" tokens, "" for an
\* empty run.
RECURSIVE Split(_)
Split(path) ==
    IF path = <<>> THEN <<"">>
    ELSE LET rest == Split(Tail(path))
         IN  IF Head(path) = "/" THEN <<"">> \o rest
             ELSE <<Head(path)>> \o Tail(rest)

\* file_path.split('/')[-1]
BaseName(path) == LET parts == Split(path) IN parts[Len(parts)]

\* ResolveName, were the first entry's base name taken without comparing it.
ResolveName_first_entry(stage_files, filename) ==
    IF stage_files = <<>> THEN filename ELSE BaseName(Head(stage_files))

\* uploaded_filename = filename; for file_path in stage_files: ... break
RECURSIVE ResolveName(_, _)
ResolveName(stage_files, filename) ==
    IF stage_files = <<>> THEN filename
    ELSE LET base_name == BaseName(Head(stage_files))
         IN  IF base_name = filename THEN base_name
             ELSE ResolveName(Tail(stage_files), filename)

\* except Exception as e: st.error(...); return False, None
\* kind: the step that raised first was "local" or "remote".
UploadFailed(scr, stg, kind) ==
    [success |-> FALSE, name |-> None, raised |-> FALSE, failure |-> kind,
     scratch |-> scr, stage |-> stg]

\* PutFile, were PUT to keep an object already staged under the name.
PutFile_keep_existing(stg, bytes) == IF stg = Absent THEN bytes ELSE stg

\* PUT 'file://<local_path>' @network_diagrams OVERWRITE=TRUE: the staged
\* object after it, given the one before and the content of the local file.
PutFile(stg, bytes) == bytes

\* UploadTransfer, were a failure of the os.remove in finally swallowed.
UploadTransfer_swallows_delete(filename, written, stg, env) ==
    IF env.fail \in {"put", "list"}
    THEN UploadFailed(IF env.delete THEN written ELSE Absent,
                      IF env.fail = "put" THEN stg ELSE written, "remote")
    ELSE [success |-> TRUE, name |-> ResolveName(env.listing, filename),
          raised |-> FALSE, failure |-> IF env.delete THEN "local" ELSE "none",
          scratch |-> IF env.delete THEN written ELSE Absent, stage |-> written]

\* The inner try ... finally, entered with the scratch file written.
UploadTransfer(filename, written, stg, env) ==
    LET stg2 == IF env.fail = "put" THEN stg ELSE PutFile(stg, written)
        ok == env.fail \notin {"put", "list"}
    IN  IF env.delete                         \* os.remove raises in finally
        THEN UploadFailed(written, stg2, IF ok THEN "local" ELSE "remote")
        ELSE IF ok
             THEN [success |-> TRUE, name |-> ResolveName(env.listing, filename),
                   raised |-> FALSE, failure |-> "none", scratch |-> Absent,
                   stage |-> stg2]
             ELSE UploadFailed(Absent, stg2, "remote")

\* alter_stage_escapes, were ALTER STAGE executed outside a try.
alter_stage_unwrapped(env) == env.alter

\* try: cursor.execute("ALTER STAGE ... SET DIRECTORY ...") except: pass
\* Whether an exception leaves the statement: when ALTER STAGE raises
\* (env.alter) the handler passes, and otherwise there is none.
alter_stage_escapes(env) == IF env.alter THEN FALSE ELSE FALSE

\* One call, with the scratch file scr and the staged object stg before it.
\* The result: the pair returned (success, name), raised (an exception left
\* the call), failure ("none", or the kind of the first step other than
\* ALTER STAGE that raised), and the scratch file and the staged object after.
upload_image_to_stage(conn, image, filename, scr, stg, env) ==
    IF env.fail = "encode" THEN UploadFailed(scr, stg, "local")
    ELSE IF env.fail = "create" THEN UploadFailed(scr, stg, "remote")
    ELSE IF alter_stage_escapes(env) THEN UploadFailed(scr, stg, "remote")
    ELSE IF scr # Absent /\ env.fail = "remove" THEN UploadFailed(scr, stg, "local")
    ELSE IF env.fail = "open" THEN UploadFailed(Absent, stg, "local")
    ELSE IF env.fail = "write" THEN UploadFailed(Partial, stg, "local")
    ELSE UploadTransfer(filename, EncodePNG(image), stg, env)

-----------------------------------------------------------------------------
(* query_cortex_complete *)

\* The command text as the sequence of its pieces; "%s" is a bind placeholder.
Placeholder == "%s"

\* cortex_sql, were the question formatted into the command text.
cortex_sql_interpolated(user_question, name) ==
    <<"SELECT SNOWFLAKE.CORTEX.COMPLETE('claude-3-5-sonnet', '", user_question,
      "', TO_FILE('@network_diagrams', ", Placeholder, ")) as response">>

\* sql = """SELECT SNOWFLAKE.CORTEX.COMPLETE('claude-3-5-sonnet', %s,
\*          TO_FILE('@network_diagrams', %s)) as response"""
cortex_sql(user_question, name) ==
    <<"SELECT SNOWFLAKE.CORTEX.COMPLETE('claude-3-5-sonnet', ", Placeholder,
      ", TO_FILE('@network_diagrams', ", Placeholder, ")) as response">>

\* cursor.execute(sql, (user_question, stage_filename)): what is handed to
\* the driver, the command text and the values to bind.
execute_args(user_question, name) ==
    [command |-> cortex_sql(user_question, name),
     params |-> <<user_question, name>>]

query_cortex_complete(conn, user_question, name, q) ==
    IF q.kind = "raise" THEN <<"Error: ", q.err>>
    ELSE IF q.kind = "row" THEN Str(q.text)
    ELSE Str("No response received from Cortex Complete")

-----------------------------------------------------------------------------
(* The script.  s is the record of everything a run reads and writes: the   *)
(* session state, the process state, the widgets rendered and tr, the       *)
(* record of the calls made since the event began.                          *)

EmptyTrace == [ingests |-> <<>>, connReturns |-> <<>>, uploads |-> <<>>,
               queries |-> <<>>, raised |-> FALSE, runs |-> 0]

\* IsNone, were the connection asked for in every run.
IsNone_always(conn) == TRUE

IsNone(conn) == conn = NoConnection          \* if ...connection is None:

\* Truthy, were the handlers to go on whatever the connection is.
Truthy_always(conn) == TRUE

Truthy(conn) == conn # NoConnection          \* if st.session_state.connection:
TruthyStr(x) == x # None /\ x # ""           \* ... and uploaded_filename

\* st.session_state.connection = get_snowflake_connection()
InitConnection(s, auth) ==
    LET r == get_snowflake_connection(
                 [cache |-> s.cache, authAttempts |-> s.authAttempts,
                  connCalls |-> s.connCalls, firstResult |-> s.firstResult], auth)
    IN  [s EXCEPT !.connection = r.ret, !.cache = r.cache,
                  !.authAttempts = r.authAttempts, !.connCalls = r.connCalls,
                  !.firstResult = r.firstResult,
                  !.tr.connReturns = Append(@, r.ret)]

\* StoreUpload, were a failed upload to put the session back to "not uploaded".
StoreUpload_resets(s, r) ==
    IF r.success /\ r.name # None
    THEN [s EXCEPT !.stage_filename = r.name, !.diagram_uploaded = TRUE]
    ELSE [s EXCEPT !.diagram_uploaded = FALSE]

\* StoreUpload, were the flag not set.
StoreUpload_name_only(s, r) ==
    IF r.success /\ r.name # None THEN [s EXCEPT !.stage_filename = r.name] ELSE s

\* StoreUpload, were the pair stored without looking at success.
StoreUpload_unchecked(s, r) ==
    [s EXCEPT !.stage_filename = r.name, !.diagram_uploaded = TRUE]

\* if success and uploaded_filename: ... else: st.error(...)
StoreUpload(s, r) ==
    IF r.success /\ TruthyStr(r.name)
    THEN [s EXCEPT !.stage_filename = r.name, !.diagram_uploaded = TRUE]
    ELSE s

\* if st.session_state.connection: stage_filename = "diagram.png"; upload; store
UploadToStage(s, image, up) ==
    LET r == upload_image_to_stage(s.connection, image, DiagramName, s.scratch,
                                   s.stage, up)
        call == [success |-> r.success, name |-> r.name, failure |-> r.failure]
        s1 == [s EXCEPT !.scratch = r.scratch, !.stage = r.stage,
                        !.tr.uploads = Append(@, call)]
    IN  IF r.raised THEN [s1 EXCEPT !.tr.raised = TRUE] ELSE StoreUpload(s1, r)

\* if uploaded_file is not None: ...
UploadSection(s, f, env) ==
    IF f = NoFile THEN s
    ELSE LET image == convert_visio_to_image(f)
             s0 == [s EXCEPT !.tr.ingests = Append(@, [file |-> f, image |-> image])]
         IN  IF image = NoImage THEN s0
             ELSE IF st_image_raises(image) THEN [s0 EXCEPT !.tr.raised = TRUE]
             ELSE LET s1 == IF IsNone(s0.connection)
                            THEN InitConnection(s0, env.auth) ELSE s0
                  IN  IF Truthy(s1.connection)
                      THEN UploadToStage(s1, image, env.up)
                      ELSE s1

\* ChatInput, were an exception of the query not caught in the dispatcher.
ChatInput_unwrapped(s, prompt, q) ==
    LET response == query_cortex_complete(s.connection, prompt, s.stage_filename, q)
        sent == execute_args(prompt, s.stage_filename)
        call == [connection |-> s.connection, question |-> prompt,
                 name |-> s.stage_filename, outcome |-> q, response |-> response,
                 command |-> sent.command, params |-> sent.params,
                 uploadsBefore |-> Len(s.tr.uploads)]
        user == [role |-> "user", content |-> Str(prompt)]
    IN  IF q.kind = "raise"
        THEN [s EXCEPT !.messages = Append(@, user), !.tr.queries = Append(@, call),
                       !.tr.raised = TRUE]
        ELSE [s EXCEPT !.messages = @ \o <<user, [role |-> "assistant",
                                                  content |-> response]>>,
                       !.tr.queries = Append(@, call)]

\* ChatInput, were the transcript to keep the latest exchange only.
ChatInput_latest_only(s, prompt, q) ==
    LET response == query_cortex_complete(s.connection, prompt, s.stage_filename, q)
        sent == execute_args(prompt, s.stage_filename)
        call == [connection |-> s.connection, question |-> prompt,
                 name |-> s.stage_filename, outcome |-> q, response |-> response,
                 command |-> sent.command, params |-> sent.params,
                 uploadsBefore |-> Len(s.tr.uploads)]
    IN  [s EXCEPT !.messages = <<[role |-> "user", content |-> Str(prompt)],
                                 [role |-> "assistant", content |-> response]>>,
                  !.tr.queries = Append(@, call)]

\* if prompt := st.chat_input(...): append user, query, append assistant
ChatInput(s, prompt, q) ==
    LET response == query_cortex_complete(s.connection, prompt, s.stage_filename, q)
        sent == execute_args(prompt, s.stage_filename)
        call == [connection |-> s.connection, question |-> prompt,
                 name |-> s.stage_filename, outcome |-> q, response |-> response,
                 command |-> sent.command, params |-> sent.params,
                 uploadsBefore |-> Len(s.tr.uploads)]
    IN  [s EXCEPT !.messages = @ \o <<[role |-> "user", content |-> Str(prompt)],
                                      [role |-> "assistant", content |-> response]>>,
                  !.tr.queries = Append(@, call)]

\* if st.session_state.diagram_uploaded: ... else: st.info(...)
QASection(s, prompt, env) ==
    IF s.diagram_uploaded
    THEN LET s1 == IF IsNone(s.connection)
                   THEN InitConnection(s, env.auth) ELSE s
         IN  IF Truthy(s1.connection)
             THEN LET s2 == [s1 EXCEPT !.chat_input = TRUE]
                  IN  IF prompt # NoPrompt THEN ChatInput(s2, prompt, env.query) ELSE s2
             ELSE [s1 EXCEPT !.chat_input = FALSE]
    ELSE [s EXCEPT !.chat_input = FALSE]

\* ClearSection, were the button to reset the staged diagram as well.
ClearSection_resets_diagram(s, clicked) ==
    IF s.messages # <<>>
    THEN IF clicked
         THEN [s EXCEPT !.clear_button = TRUE, !.messages = <<>>, !.rerun = TRUE,
                        !.diagram_uploaded = FALSE, !.stage_filename = None]
         ELSE [s EXCEPT !.clear_button = TRUE]
    ELSE [s EXCEPT !.clear_button = FALSE]

\* if st.session_state.messages: if st.button(...): messages = []; st.rerun()
\* The result's rerun says whether st.rerun() was called.
ClearSection(s, clicked) ==
    IF s.messages # <<>>
    THEN IF clicked
         THEN [s EXCEPT !.clear_button = TRUE, !.messages = <<>>, !.rerun = TRUE]
         ELSE [s EXCEPT !.clear_button = TRUE]
    ELSE [s EXCEPT !.clear_button = FALSE]

\* ScriptRun, were the Q&A section to stand above the upload section.
ScriptRun_chat_first(s, f, prompt, clicked, env) ==
    LET s0 == [s EXCEPT !.chat_input = FALSE, !.clear_button = FALSE,
                        !.rerun = FALSE, !.tr.runs = @ + 1]
        a == UploadSection(QASection(s0, prompt, env), f, env)
    IN  IF a.tr.raised THEN a ELSE ClearSection(a, clicked)

\* One run of the script, top to bottom, with the upload control holding f,
\* the chat input returning prompt and the button returning clicked.  An
\* exception that reaches the top level ends the run where it is raised.
ScriptRun(s, f, prompt, clicked, env) ==
    LET s0 == [s EXCEPT !.chat_input = FALSE, !.clear_button = FALSE,
                        !.rerun = FALSE, !.tr.runs = @ + 1]
        a == UploadSection(s0, f, env)
    IN  IF a.tr.raised THEN a
        ELSE ClearSection(QASection(a, prompt, env), clicked)

-----------------------------------------------------------------------------
(* Two processes on one host, each in upload_image_to_stage for the fixed   *)
(* name: race[p] is the position of process p in its call, the pair it is   *)
(* about to return or has returned, the staged object at its return, and    *)
(* met: whether the other process wrote or removed the scratch file or the  *)
(* staged object while p was inside the call.                               *)

Procs == {1, 2}
OtherProc(p) == CHOOSE q \in Procs : q # p

\* The picture process p uploads; the two differ.
RaceImage(p) ==
    [format |-> "PNG", pixels |-> IF p = 1 THEN "ok" ELSE "ok, another picture"]

NoReturn == [success |-> FALSE, name |-> None, staged |-> Absent]
NotCalling == [pc |-> "idle", ret |-> NoReturn, met |-> FALSE]

-----------------------------------------------------------------------------
(* The events. *)

Cur == [messages |-> messages, diagram_uploaded |-> diagram_uploaded,
        stage_filename |-> stage_filename, connection |-> connection,
        chat_input |-> chat_input, clear_button |-> clear_button,
        cache |-> cache, scratch |-> scratch, stage |-> stage,
        authAttempts |-> authAttempts, connCalls |-> connCalls,
        firstResult |-> firstResult, rerun |-> FALSE, tr |-> EmptyTrace]

Commit(s, f, event, arg) ==
    /\ s.connCalls <= MaxCalls
    /\ Len(s.messages) <= MaxTurns
    /\ messages' = s.messages
    /\ diagram_uploaded' = s.diagram_uploaded
    /\ stage_filename' = s.stage_filename
    /\ connection' = s.connection
    /\ uploaded_file' = f
    /\ chat_input' = s.chat_input
    /\ clear_button' = s.clear_button
    /\ cache' = s.cache
    /\ scratch' = s.scratch
    /\ stage' = s.stage
    /\ authAttempts' = s.authAttempts
    /\ connCalls' = s.connCalls
    /\ firstResult' = s.firstResult
    /\ last' = [event |-> event, arg |-> arg, ingests |-> s.tr.ingests,
                connReturns |-> s.tr.connReturns, uploads |-> s.tr.uploads,
                queries |-> s.tr.queries, raised |-> s.tr.raised,
                runs |-> s.tr.runs]
    /\ race' = race

\* Lines 19-27 and the first run of a session: nothing is held, nothing shown.
Init ==
    /\ messages = <<>>
    /\ diagram_uploaded = FALSE
    /\ stage_filename = None
    /\ connection = NoConnection
    /\ uploaded_file = NoFile
    /\ chat_input = FALSE
    /\ clear_button = FALSE
    /\ cache = [filled |-> FALSE, value |-> NoConnection]
    /\ scratch = Absent
    /\ stage = Absent
    /\ authAttempts = 0
    /\ connCalls = 0
    /\ firstResult = NoConnection
    /\ last = [event |-> "start", arg |-> None, ingests |-> <<>>,
               connReturns |-> <<>>, uploads |-> <<>>, queries |-> <<>>,
               raised |-> FALSE, runs |-> 1]
    /\ race = [p \in Procs |-> NotCalling]

\* What a run can meet.  A choice the run cannot read is fixed: the body of
\* get_snowflake_connection runs only on an empty cache, the uploader only
\* for a picture that displays, the query only for a submitted prompt.
AuthChoices == IF cache_hit(cache) THEN {"ok"} ELSE AuthOutcomes
UploadChoices(f) ==
    LET image == convert_visio_to_image(f)
    IN  IF f = NoFile \/ image = NoImage \/ st_image_raises(image)
        THEN {NoUpload} ELSE SessionUploadEnvs
RunEnvs(f, prompt) ==
    [auth : AuthChoices, up : UploadChoices(f),
     query : IF prompt = NoPrompt THEN {NoQuery} ELSE QueryOutcomes]

\* The user puts a file into the upload control, replaces it or removes it.
Upload ==
    \E f \in Files \cup {NoFile} : \E env \in RunEnvs(f, NoPrompt) :
        /\ f = NoFile => uploaded_file # NoFile
        /\ Commit(ScriptRun(Cur, f, NoPrompt, FALSE, env), f, "upload", None)

\* The user submits a question in the chat input.
ChatSubmit ==
    \E prompt \in Questions, env \in RunEnvs(uploaded_file, "prompt") :
        /\ chat_input
        /\ Commit(ScriptRun(Cur, uploaded_file, prompt, FALSE, env),
                  uploaded_file, "chat", prompt)

\* The user presses "Clear Conversation": the run that sees the click, then
\* the run st.rerun() starts.
Clear ==
    /\ clear_button
    /\ \E env1 \in RunEnvs(uploaded_file, NoPrompt) :
          LET s1 == ScriptRun(Cur, uploaded_file, NoPrompt, TRUE, env1)
          IN  IF s1.rerun
              THEN \E env2 \in RunEnvs(uploaded_file, NoPrompt) :
                      Commit(ScriptRun(s1, uploaded_file, NoPrompt, FALSE, env2),
                             uploaded_file, "clear", None)
              ELSE Commit(s1, uploaded_file, "clear", None)

\* The page is loaded anew: a new session of the same process.
NewSession ==
    /\ messages' = <<>>
    /\ diagram_uploaded' = FALSE
    /\ stage_filename' = None
    /\ connection' = NoConnection
    /\ uploaded_file' = NoFile
    /\ chat_input' = FALSE
    /\ clear_button' = FALSE
    /\ last' = [event |-> "new_session", arg |-> None, ingests |-> <<>>,
                connReturns |-> <<>>, uploads |-> <<>>, queries |-> <<>>,
                raised |-> FALSE, runs |-> 1]
    /\ UNCHANGED <<cache, scratch, stage, authAttempts, connCalls, firstResult,
                   race>>

Next == Upload \/ ChatSubmit \/ Clear \/ NewSession

Spec == Init /\ [][Next]_vars

-----------------------------------------------------------------------------
(* The Stage Uploader alone: any sequence of calls of upload_image_to_stage  *)
(* in one process, each meeting any of UploadEnvs, with the scratch file    *)
(* and the staged object the calls before it left.  last.uploads holds the  *)
(* one call in full.                                                        *)

Images == { image \in { convert_visio_to_image(f) : f \in Files } :
               image # NoImage /\ ~st_image_raises(image) }

UploaderCall ==
    \E image \in Images, env \in UploadEnvs :
        LET r == upload_image_to_stage(Handle(1), image, DiagramName, scratch,
                                       stage, env)
        IN  /\ scratch' = r.scratch
            /\ stage' = r.stage
            /\ last' = [event |-> "call", arg |-> None, ingests |-> <<>>,
                        connReturns |-> <<>>,
                        uploads |-> <<[image |-> image, filename |-> DiagramName,
                                       env |-> env, before |-> scratch,
                                       after |-> r.scratch, staged |-> r.stage,
                                       success |-> r.success, name |-> r.name,
                                       raised |-> r.raised, failure |-> r.failure]>>,
                        queries |-> <<>>, raised |-> r.raised, runs |-> 0]
            /\ UNCHANGED <<messages, diagram_uploaded, stage_filename, connection,
                           uploaded_file, chat_input, clear_button, cache,
                           authAttempts, connCalls, firstResult, race>>

SpecUploader == Init /\ [][UploaderCall]_vars

-----------------------------------------------------------------------------
(* Two concurrent calls of upload_image_to_stage, one statement at a time.  *)
(* Both use <tmp>/diagram.png and @network_diagrams/diagram.png.  No step   *)
(* fails by itself here: a step raises only when the other process has      *)
(* taken the scratch file away.                                             *)

InCall(r) == r.pc \notin {"idle", "done"}

\* Process p goes to pc with the pair ret; touched: the step wrote or removed
\* the scratch file or the staged object, which every other process inside a
\* call has then met.
RaceMove(p, pc, ret, touched) ==
    race' = [q \in Procs |->
                IF q = p THEN [race[p] EXCEPT !.pc = pc, !.ret = ret]
                ELSE IF touched /\ InCall(race[q]) THEN [race[q] EXCEPT !.met = TRUE]
                ELSE race[q]]

RaceFrame ==
    UNCHANGED <<messages, diagram_uploaded, stage_filename, connection,
                uploaded_file, chat_input, clear_button, cache, authAttempts,
                connCalls, firstResult, last>>

\* except Exception as e: st.error(...); return False, None
RaceFailed == [success |-> FALSE, name |-> None, staged |-> stage]

\* The rows of LIST @network_diagrams for the staged object stg.
StageListing(stg) ==
    IF stg = Absent THEN <<>> ELSE <<<<"network_diagrams", "/", DiagramName>>>>

\* The call begins: image.save, cursor, CREATE STAGE, ALTER STAGE, local_path.
RaceCall(p) ==
    /\ race[p].pc \in {"idle", "done"}
    /\ race' = [race EXCEPT ![p] = [pc |-> "exists", ret |-> NoReturn,
                                     met |-> FALSE]]
    /\ UNCHANGED <<scratch, stage>>
    /\ RaceFrame

\* if os.path.exists(local_path):
RaceExists(p) ==
    /\ race[p].pc = "exists"
    /\ RaceMove(p, IF scratch # Absent THEN "remove" ELSE "write", NoReturn, FALSE)
    /\ UNCHANGED <<scratch, stage>>
    /\ RaceFrame

\* os.remove(local_path): raises when the file is gone since the test.
RaceRemove(p) ==
    /\ race[p].pc = "remove"
    /\ IF scratch = Absent
       THEN /\ RaceMove(p, "done", RaceFailed, FALSE)
            /\ UNCHANGED scratch
       ELSE /\ RaceMove(p, "write", NoReturn, TRUE)
            /\ scratch' = Absent
    /\ UNCHANGED stage
    /\ RaceFrame

\* with open(local_path, 'wb') as f: f.write(image_bytes)
RaceWrite(p) ==
    /\ race[p].pc = "write"
    /\ scratch' = EncodePNG(RaceImage(p))
    /\ RaceMove(p, "put", NoReturn, TRUE)
    /\ UNCHANGED stage
    /\ RaceFrame

\* cursor.execute(put_command): transfers what the local file holds now, and
\* raises when there is no such file.
RacePut(p) ==
    /\ race[p].pc = "put"
    /\ IF scratch = Absent
       THEN /\ RaceMove(p, "finally", RaceFailed, FALSE)
            /\ UNCHANGED stage
       ELSE /\ RaceMove(p, "list", NoReturn, TRUE)
            /\ stage' = PutFile(stage, scratch)
    /\ UNCHANGED scratch
    /\ RaceFrame

\* LIST, the loop over stage_files, cursor.close(), return True, uploaded_filename
RaceList(p) ==
    /\ race[p].pc = "list"
    /\ RaceMove(p, "finally",
                [success |-> TRUE,
                 name |-> ResolveName(StageListing(stage), DiagramName),
                 staged |-> stage], FALSE)
    /\ UNCHANGED <<scratch, stage>>
    /\ RaceFrame

\* finally: if os.path.exists(local_path):
RaceFinally(p) ==
    /\ race[p].pc = "finally"
    /\ IF scratch # Absent
       THEN RaceMove(p, "cleanup", race[p].ret, FALSE)
       ELSE RaceMove(p, "done", [race[p].ret EXCEPT !.staged = stage], FALSE)
    /\ UNCHANGED <<scratch, stage>>
    /\ RaceFrame

\* finally: os.remove(local_path), then the return; when the file is gone
\* since the test, os.remove raises and the call returns False, None.
RaceCleanup(p) ==
    /\ race[p].pc = "cleanup"
    /\ IF scratch = Absent
       THEN /\ RaceMove(p, "done", RaceFailed, FALSE)
            /\ UNCHANGED scratch
       ELSE /\ RaceMove(p, "done", [race[p].ret EXCEPT !.staged = stage], TRUE)
            /\ scratch' = Absent
    /\ UNCHANGED stage
    /\ RaceFrame

RaceNext ==
    \E p \in Procs :
        \/ RaceCall(p)
        \/ RaceExists(p)
        \/ RaceRemove(p)
        \/ RaceWrite(p)
        \/ RacePut(p)
        \/ RaceList(p)
        \/ RaceFinally(p)
        \/ RaceCleanup(p)

SpecRace == Init /\ [][RaceNext]_vars

-----------------------------------------------------------------------------
(* Properties. *)

Uploads == DOMAIN last.uploads
Queries == DOMAIN last.queries

\* C1: the Query Dispatcher is called only with a non-null connection and a
\* set stage_filename, and the chat input is offered only while a diagram is
\* staged (flag true, name set) and the connection is non-null.
C1_DispatchGuarded ==
    /\ \A i \in Queries : /\ last.queries[i].connection # NoConnection
                          /\ last.queries[i].name # None
    /\ chat_input => /\ diagram_uploaded
                     /\ stage_filename # None
                     /\ connection # NoConnection

\* A question is dispatched in a run whose own re-upload has just failed.
C1_Witness ==
    /\ last.event = "chat"
    /\ Len(last.queries) = 1
    /\ Len(last.uploads) = 1
    /\ ~last.uploads[1].success

\* C2: in one process at most one execution of the body of
\* get_snowflake_connection happens, exactly one once it has been called, and
\* every call returns what that execution returned, None included.
C2_OneAttempt ==
    /\ authAttempts <= 1
    /\ connCalls >= 1 => authAttempts = 1
    /\ \A i \in DOMAIN last.connReturns : last.connReturns[i] = firstResult
    /\ connection \in {NoConnection, firstResult}

\* A second call after a first attempt that failed: it returns None again.
C2_Witness ==
    /\ connCalls = 2
    /\ authAttempts = 1
    /\ firstResult = NoConnection
    /\ last.connReturns = <<NoConnection>>

\* C3: an upload event with a file whose declared type is not PNG or JPEG:
\* the Ingestor returns None, no call of get_snowflake_connection and none of
\* upload_image_to_stage is made, and the flag, the name and the transcript
\* keep their values.
C3_Step ==
    (/\ last'.event = "upload"
     /\ uploaded_file' # NoFile
     /\ uploaded_file'.type \notin {"image/png", "image/jpeg", "image/jpg"})
    => /\ last'.ingests = <<[file |-> uploaded_file', image |-> NoImage]>>
       /\ last'.connReturns = <<>>
       /\ connCalls' = connCalls
       /\ authAttempts' = authAttempts
       /\ last'.uploads = <<>>
       /\ diagram_uploaded' = diagram_uploaded
       /\ stage_filename' = stage_filename
       /\ messages' = messages
C3_RejectedTypeNoEffect == [][C3_Step]_vars

\* A .vsdx upload in a session with nothing staged and no connection yet.
C3_Witness ==
    /\ last.event = "upload"
    /\ uploaded_file.type = "application/vnd.ms-visio.drawing"
    /\ last.ingests = <<[file |-> uploaded_file, image |-> NoImage]>>
    /\ ~diagram_uploaded
    /\ connection = NoConnection
    /\ ~cache.filled

\* C4 (as claimed): when a call of upload_image_to_stage returns and no
\* os.remove raised in it, the scratch file does not exist, whatever else
\* failed and whether or not a stale scratch file existed before the call.
C4_ScratchAbsentOnReturn ==
    \A i \in Uploads :
        (/\ last.event = "call"
         /\ ~last.uploads[i].env.delete
         /\ ~(last.uploads[i].env.fail = "remove" /\ last.uploads[i].before # Absent))
        => last.uploads[i].after = Absent

\* The text after the last "/" of a path, read off its tokens.
TextAfterLastSlash(path) ==
    IF path = <<>> \/ path[Len(path)] = "/" THEN "" ELSE path[Len(path)]

\* C5: a successful call resolves to the base name of a listing entry whose
\* base name equals the desired name when there is such an entry, and to the
\* desired name when there is none.
C5_ResolvedName ==
    \A i \in Uploads :
        (last.event = "call" /\ last.uploads[i].success) =>
            LET c == last.uploads[i]
                hits == { j \in DOMAIN c.env.listing :
                            TextAfterLastSlash(c.env.listing[j]) = c.filename }
            IN  /\ hits # {} =>
                     \E j \in hits : c.name = TextAfterLastSlash(c.env.listing[j])
                /\ hits = {} => c.name = c.filename

\* A successful call whose listing holds the match behind an entry that does
\* not match.
C5_Witness ==
    /\ last.event = "call"
    /\ Len(last.uploads) = 1
    /\ last.uploads[1].success
    /\ Len(last.uploads[1].env.listing) = 2
    /\ TextAfterLastSlash(last.uploads[1].env.listing[1]) # DiagramName
    /\ TextAfterLastSlash(last.uploads[1].env.listing[2]) = DiagramName

\* The strings the dispatcher returns when it got no text from the service.
ErrorStrings == { <<"Error: ", e>> : e \in Errors }
                \cup { <<"No response received from Cortex Complete">> }

\* C6: a chat-submit event with question q leaves the old transcript as a
\* prefix and appends exactly two turns: a user turn with text q, then an
\* assistant turn with the text the service returned or, when the query gave
\* none, an error string; one query is dispatched and no exception escapes.
C6_Step ==
    last'.event = "chat" =>
        LET n == Len(messages)
        IN  /\ Len(messages') = n + 2
            /\ SubSeq(messages', 1, n) = messages
            /\ messages'[n + 1] = [role |-> "user", content |-> <<last'.arg>>]
            /\ messages'[n + 2].role = "assistant"
            /\ Len(last'.queries) = 1
            /\ last'.queries[1].question = last'.arg
            /\ IF last'.queries[1].outcome.kind = "row"
               THEN messages'[n + 2].content = <<last'.queries[1].outcome.text>>
               ELSE messages'[n + 2].content \in ErrorStrings
            /\ ~last'.raised
C6_ChatAppendsTwo == [][C6_Step]_vars

\* A second exchange, whose query raised: four turns, the last an error string.
C6_Witness ==
    /\ last.event = "chat"
    /\ Len(messages) = 4
    /\ last.queries[1].outcome.kind = "raise"
    /\ messages[4] = [role |-> "assistant", content |-> <<"Error: ", "timeout">>]

\* C7: a clear event (the run that sees the click and the rerun) empties the
\* transcript and leaves the flag and the resolved name as they were.
C7_Step ==
    last'.event = "clear" =>
        /\ messages' = <<>>
        /\ diagram_uploaded' = diagram_uploaded
        /\ stage_filename' = stage_filename
C7_ClearKeepsDiagram == [][C7_Step]_vars

\* A clear whose two runs both re-uploaded the held file, the second failing.
C7_Witness ==
    /\ last.event = "clear"
    /\ last.runs = 2
    /\ messages = <<>>
    /\ diagram_uploaded
    /\ stage_filename = DiagramName
    /\ Len(last.uploads) = 2
    /\ ~last.uploads[2].success

\* An upload event whose file the Ingestor accepted, with the connection
\* available at its end.
AcceptedUpload ==
    /\ last.event = "upload"
    /\ Len(last.ingests) = 1
    /\ last.ingests[1].image # NoImage
    /\ connection # NoConnection

UploadedAs(call) ==
    /\ call.success
    /\ call.name = DiagramName
    /\ diagram_uploaded
    /\ stage_filename = DiagramName

\* C8 (as claimed): an accepted image, the connection available, the
\* uploader called and none of its remote steps failing: it returns
\* (True, "diagram.png") and the event ends with the flag true and that name.
C8_RemoteStepsSuffice ==
    (AcceptedUpload /\ Len(last.uploads) = 1 /\ last.uploads[1].failure # "remote")
    => UploadedAs(last.uploads[1])

\* C8 (amended): an accepted image that displays and an available connection
\* give one uploader call; when none of its steps other than ALTER STAGE
\* fails, local or remote, it returns (True, "diagram.png") and the event
\* ends with the flag true and that name.
C8_AllStepsSuffice ==
    /\ (AcceptedUpload /\ ~last.raised) => Len(last.uploads) = 1
    /\ (AcceptedUpload /\ Len(last.uploads) = 1 /\ last.uploads[1].failure = "none")
       => UploadedAs(last.uploads[1])

\* The first upload of a session: the connection is made and the diagram staged.
C8_Witness ==
    /\ AcceptedUpload
    /\ Len(last.connReturns) = 1
    /\ Len(last.uploads) = 1
    /\ last.uploads[1].failure = "none"
    /\ UploadedAs(last.uploads[1])

\* C9 (as claimed): an upload event in which the uploader call failed ends
\* with the flag false and no chat input.
C9_FailedUploadNotUploaded ==
    (last.event = "upload" /\ \E i \in Uploads : ~last.uploads[i].success)
    => (~diagram_uploaded /\ ~chat_input)

\* C9 (amended): an upload event in which the uploader call failed leaves the
\* flag and the resolved name as they were; while the flag is false no chat
\* input is offered and no query dispatched, and the flag turns true only in
\* an event with a successful uploader call.
C9_Step ==
    /\ (last'.event = "upload" /\ \E i \in DOMAIN last'.uploads : ~last'.uploads[i].success)
       => /\ diagram_uploaded' = diagram_uploaded
          /\ stage_filename' = stage_filename
    /\ ~diagram_uploaded' => (~chat_input' /\ last'.queries = <<>>)
    /\ (~diagram_uploaded /\ diagram_uploaded')
       => \E i \in DOMAIN last'.uploads : last'.uploads[i].success
C9_FailedUploadKeepsState == [][C9_Step]_vars

\* A re-upload fails after an earlier upload succeeded: the diagram stays staged.
C9_Witness ==
    /\ last.event = "upload"
    /\ Len(last.uploads) = 1
    /\ ~last.uploads[1].success
    /\ diagram_uploaded
    /\ stage_filename = DiagramName
    /\ chat_input

\* A step of the call other than ALTER STAGE raised.
StepRaised(c) ==
    \/ c.env.fail \in {"encode", "create", "open", "write", "put", "list"}
    \/ c.env.fail = "remove" /\ c.before # Absent
    \/ c.env.delete

\* C10: no call of upload_image_to_stage lets an exception out, and a call in
\* which a step other than ALTER STAGE raised returns (False, None).
C10_FailureReturned ==
    \A i \in Uploads :
        last.event = "call" =>
            /\ ~last.uploads[i].raised
            /\ StepRaised(last.uploads[i]) =>
                  (~last.uploads[i].success /\ last.uploads[i].name = None)

\* Every step succeeded but the deletion of the scratch file in finally.
C10_Witness ==
    /\ last.event = "call"
    /\ Len(last.uploads) = 1
    /\ last.uploads[1].env.fail = "none"
    /\ last.uploads[1].env.delete
    /\ ~last.uploads[1].success
    /\ last.uploads[1].name = None

\* C11: an upload event in which get_snowflake_connection returned None makes
\* no call of upload_image_to_stage and none of query_cortex_complete, raises
\* nothing, and leaves the transcript, the flag, the resolved name and the
\* (null) connection as they were before the event.
C11_Step ==
    (/\ last'.event = "upload"
     /\ \E i \in DOMAIN last'.connReturns : last'.connReturns[i] = NoConnection)
    => /\ last'.uploads = <<>>
       /\ last'.queries = <<>>
       /\ ~last'.raised
       /\ messages' = messages
       /\ diagram_uploaded' = diagram_uploaded
       /\ stage_filename' = stage_filename
       /\ connection' = NoConnection
       /\ connection = NoConnection
       /\ scratch' = scratch
       /\ stage' = stage
C11_ProvisioningFailureAborts == [][C11_Step]_vars

\* A good PNG is uploaded and authentication fails: the body of
\* get_snowflake_connection ran, returned None, and nothing was staged.
C11_Witness ==
    /\ last.event = "upload"
    /\ uploaded_file = [type |-> "image/png", content |-> "ok"]
    /\ last.ingests[1].image # NoImage
    /\ last.connReturns = <<NoConnection>>
    /\ authAttempts = 1
    /\ connCalls = 1
    /\ last.uploads = <<>>
    /\ ~diagram_uploaded

\* C12: a call of upload_image_to_stage in which ALTER STAGE raised returns
\* what the same call, from the same scratch file and staged object, returns
\* when ALTER STAGE succeeds, and leaves the same scratch file and staged
\* object; with every other step succeeding it returns success with the
\* resolved name, the scratch file written and removed and the image put on
\* the stage, so the later steps were executed.
C12_Step ==
    (last'.event = "call" /\ last'.uploads[1].env.alter) =>
        LET c == last'.uploads[1]
            r == upload_image_to_stage(Handle(1), c.image, c.filename, scratch,
                                       stage, [c.env EXCEPT !.alter = FALSE])
        IN  /\ c.success = r.success
            /\ c.name = r.name
            /\ c.failure = r.failure
            /\ scratch' = r.scratch
            /\ stage' = r.stage
            /\ (c.env.fail = "none" /\ ~c.env.delete) =>
                  /\ c.success
                  /\ c.name = ResolveName(c.env.listing, c.filename)
                  /\ stage' = EncodePNG(c.image)
                  /\ scratch' = Absent
C12_AlterFailureIgnored == [][C12_Step]_vars

\* ALTER STAGE raised and nothing else: over a stale scratch file, the call
\* put the image on the stage and succeeded.
C12_Witness ==
    /\ last.event = "call"
    /\ Len(last.uploads) = 1
    /\ last.uploads[1].env.alter
    /\ last.uploads[1].env.fail = "none"
    /\ ~last.uploads[1].env.delete
    /\ last.uploads[1].before # Absent
    /\ last.uploads[1].success
    /\ last.uploads[1].name = DiagramName
    /\ last.uploads[1].staged = EncodePNG(last.uploads[1].image)

\* C13 (as claimed): no upload, chat-submit or clear event ends with an
\* exception that left its handler and reached the top level of the script,
\* whatever external call failed in it.
C13_NoFailureEscapes ==
    last.event \in {"upload", "chat", "clear"} => ~last.raised

\* C14: the command text of every query is the one text sent for any
\* question with the same staged name; no piece of it is a question, it holds
\* one placeholder for each bound value, and the question and the staged
\* name are handed over as the bound values, in that order.
C14_QuestionOnlyBound ==
    \A i \in Queries :
        LET c == last.queries[i]
            holes == { k \in DOMAIN c.command : c.command[k] = Placeholder }
        IN  /\ \A q \in Questions : execute_args(q, c.name).command = c.command
            /\ \A k \in DOMAIN c.command : c.command[k] \notin Questions
            /\ c.params = <<c.question, c.name>>
            /\ Cardinality(holes) = Len(c.params)

\* The second question of a session differs from the first and is sent for
\* the same staged name.
C14_Witness ==
    /\ last.event = "chat"
    /\ Len(messages) = 4
    /\ messages[1].content # messages[3].content
    /\ messages[3].content = <<last.arg>>
    /\ Len(last.queries) = 1
    /\ last.queries[1].params = <<last.arg, DiagramName>>

\* C15: in an upload, chat-submit or clear event of a session whose
\* connection is non-null, the connection keeps its value and
\* get_snowflake_connection is not called; the connection is written only by
\* storing what a call of get_snowflake_connection returned into a null one.
C15_Step ==
    last'.event \in {"upload", "chat", "clear"} =>
        /\ connection # NoConnection =>
              /\ connection' = connection
              /\ last'.connReturns = <<>>
              /\ connCalls' = connCalls
        /\ connection' # connection =>
              /\ connection = NoConnection
              /\ last'.connReturns # <<>>
              /\ connection' = last'.connReturns[Len(last'.connReturns)]
C15_ConnectionWrittenOnce == [][C15_Step]_vars

\* A chat-submit run re-uploads the held file over the connection the
\* session already has: no call of get_snowflake_connection.
C15_Witness ==
    /\ last.event = "chat"
    /\ connection = Handle(1)
    /\ Len(last.uploads) = 1
    /\ Len(last.queries) = 1
    /\ last.connReturns = <<>>
    /\ connCalls = 1

IsPrefix(a, b) == Len(a) <= Len(b) /\ SubSeq(b, 1, Len(a)) = a

\* C16: an upload or chat-submit event leaves the transcript it found as a
\* prefix of the transcript it ends with, an upload event leaves it as it
\* was, only a clear event (or a new session) shortens it, and every turn of
\* the transcript has the role user or assistant.
C16_Step ==
    /\ last'.event \in {"upload", "chat"} => IsPrefix(messages, messages')
    /\ last'.event = "upload" => messages' = messages
    /\ ~IsPrefix(messages, messages') => last'.event \in {"clear", "new_session"}
    /\ \A i \in DOMAIN messages' : messages'[i].role \in {"user", "assistant"}
C16_TranscriptAppendOnly == [][C16_Step]_vars

\* An upload event in a session whose transcript holds two exchanges, the
\* first answered by the service and the second by an error string.
C16_Witness ==
    /\ last.event = "upload"
    /\ Len(messages) = 4
    /\ messages[1].role = "user"
    /\ messages[2].role = "assistant"
    /\ messages[2].content \notin ErrorStrings
    /\ messages[4].content \in ErrorStrings
    /\ Len(last.uploads) = 1

\* C18: whenever diagram_uploaded is true, stage_filename is set and the
\* session's connection is non-null; and an upload (failed ones included),
\* chat-submit or clear event of a session whose flag is true ends with the
\* flag true and stage_filename set.
C18_Step ==
    /\ diagram_uploaded' => /\ stage_filename' # None
                             /\ stage_filename' # ""
                             /\ connection' # NoConnection
    /\ (diagram_uploaded /\ last'.event \in {"upload", "chat", "clear"})
       => /\ diagram_uploaded'
          /\ stage_filename' # None
C18_UploadedIsStable == [][C18_Step]_vars

\* The file is taken out of the upload control after it was staged, and a
\* question is asked: the diagram is still staged.
C18_Witness ==
    /\ last.event = "chat"
    /\ uploaded_file = NoFile
    /\ last.uploads = <<>>
    /\ diagram_uploaded
    /\ stage_filename = DiagramName
    /\ connection # NoConnection

\* C19 (as claimed): a chat-submit or clear event with a file held in the
\* upload control calls the Stage Uploader in each of its script runs.
C19_UploadWheneverHeld ==
    (last.event \in {"chat", "clear"} /\ uploaded_file # NoFile)
    => Len(last.uploads) = last.runs

\* The file the upload control holds is one the Ingestor accepts and st.image
\* displays.
Displayable(f) ==
    /\ f # NoFile
    /\ convert_visio_to_image(f) # NoImage
    /\ ~st_image_raises(convert_visio_to_image(f))

\* C19 (amended): every script run with a file held calls the Ingestor; the
\* Stage Uploader is called in every run whose held file is accepted and
\* displays, given the connection, and in no other; so a chat-submit or clear
\* event with such a file uploads in each of its runs.  A query is dispatched
\* after the uploads of its run have returned and is given the name the
\* session holds then: that of the run's upload when it succeeded, and the
\* name stored before the event when it failed or none was made.
C19_Step ==
    last'.event \in {"upload", "chat", "clear"} =>
        /\ uploaded_file' # NoFile => Len(last'.ingests) = last'.runs
        /\ uploaded_file' = NoFile => last'.ingests = <<>>
        /\ (Displayable(uploaded_file') /\ connection' # NoConnection)
           => Len(last'.uploads) = last'.runs
        /\ (Displayable(uploaded_file') /\ last'.event \in {"chat", "clear"})
           => Len(last'.uploads) = last'.runs
        /\ ~Displayable(uploaded_file') => last'.uploads = <<>>
        /\ \A i \in DOMAIN last'.queries :
              LET c == last'.queries[i]
                  n == Len(last'.uploads)
              IN  /\ c.uploadsBefore = n
                  /\ c.name = stage_filename'
                  /\ (n > 0 /\ last'.uploads[n].success) => c.name = last'.uploads[n].name
                  /\ (n = 0 \/ ~last'.uploads[n].success) => c.name = stage_filename
C19_ReuploadThenQuery == [][C19_Step]_vars

\* A question is asked with the staged picture still held: the run uploads it
\* again, then dispatches the query with the name of that upload.
C19_Witness ==
    /\ last.event = "chat"
    /\ Displayable(uploaded_file)
    /\ Len(last.ingests) = 1
    /\ Len(last.uploads) = 1
    /\ last.uploads[1].success
    /\ Len(last.queries) = 1
    /\ last.queries[1].uploadsBefore = 1
    /\ last.queries[1].name = last.uploads[1].name

\* p has returned success from its call.
ReturnedSuccess(p) == race[p].pc = "done" /\ race[p].ret.success

\* C17: a call that returns success always resolves to "diagram.png", whoever
\* put the object staged under that name; the object staged at its return is
\* the caller's own image unless the other process wrote or removed the
\* scratch file or the staged object during the call.  That such a call does
\* return success over the other process's image is C17_Witness.
C17_NameBlindToRace ==
    \A p \in Procs :
        ReturnedSuccess(p) =>
            /\ race[p].ret.name = DiagramName
            /\ race[p].ret.staged # Absent
            /\ race[p].ret.staged # EncodePNG(RaceImage(p)) => race[p].met

\* One process has returned (True, "diagram.png") while the object staged
\* under that name holds the other process's image.
C17_Witness ==
    \E p \in Procs :
        /\ ReturnedSuccess(p)
        /\ race[p].ret.name = DiagramName
        /\ race[p].ret.staged = EncodePNG(RaceImage(OtherProc(p)))
        /\ stage = EncodePNG(RaceImage(OtherProc(p)))

====
